---- MODULE Spec2Model ----
(***************************************************************************)
(* Relay-chain finality target selection (SelectRelayChain) and the        *)
(* parachains inherent (paras_inherent::Module) as state machines.         *)
(*                                                                         *)
(* SelSpec: one call of leaves, best_chain or finality_target, suspended   *)
(*          at each oracle request; the oracle replies are arbitrary       *)
(*          values of the reply types.                                     *)
(* SelLiveSpec: the same call with every awaited request answered.         *)
(* FbSpec:  calls on SelectRelayChainWithFallback, one after the other.    *)
(* InhSpec: blocks of enter calls between on_initialize and on_finalize.   *)
(* LimSpec: limit_backed_candidates.                                       *)
(* CreSpec: create_inherent and the dispatch of the call it returns.       *)
(***************************************************************************)
EXTENDS Integers, Sequences, FiniteSets, TLC

(***************************************************************************)
(* Program constants                                                       *)
(***************************************************************************)
MAX_FINALITY_LAG == 50
BACKED_CANDIDATE_WEIGHT == 100000
INCLUSION_INHERENT_CLAIMED_WEIGHT == 1000000000
\* we assume that 75% of an paras inherent's weight is used processing
\* backed candidates
MINIMAL_INCLUSION_INHERENT_WEIGHT == INCLUSION_INHERENT_CLAIMED_WEIGHT \div 4
MAX_CODE_UPGRADES == 1

(***************************************************************************)
(* Bounds of the model                                                     *)
(***************************************************************************)
\* number of the tip of the main chain held by the backend
ChainLen == 53
\* number of the tip of the side chain that forks off the main chain at 1
ForkTop == 4
\* largest of the small block numbers an oracle reply is drawn from
MaxReply == 4
\* enter calls dispatched within one block
MaxEnters == 2

\* most leaves the chain-selection subsystem replies with
MaxLeaves == 2

\* longest list of backed candidates given to limit_backed_candidates
MaxCandidates == 3
\* the configured BlockWeights::max_block
max_block == 4
\* the session index reported by shared::Pallet
current_session == 1

(***************************************************************************)
(* Option<T>                                                               *)
(***************************************************************************)
Some(x) == [some |-> TRUE, v |-> x]

(***************************************************************************)
(* The backend: a block tree. A hash is a pair <<chain, number>>; the      *)
(* backend maps a hash to its header (parent_hash, number).                *)
(***************************************************************************)
M(n) == <<"main", n>>
F(n) == <<"fork", n>>
\* a hash the backend holds no header for
Unknown == <<"unknown", 0>>

NoneHash == [some |-> FALSE, v |-> Unknown]
NoneNumber == [some |-> FALSE, v |-> 0]

Blocks == {M(n) : n \in 0..ChainLen} \cup {F(n) : n \in 2..ForkTop}

Header(hash) ==
    [ number |-> hash[2],
      parent_hash |-> IF hash = M(0) THEN Unknown
                      ELSE IF hash = F(2) THEN M(1)
                      ELSE <<hash[1], hash[2] - 1>> ]

\* HeaderProvider::header / block_header: Ok(Some(header)) or ChainLookup
block_header(hash) ==
    IF hash \in Blocks THEN [ok |-> TRUE, header |-> Header(hash)]
    ELSE [ok |-> FALSE, header |-> [number |-> 0, parent_hash |-> Unknown]]

\* HeaderProvider::number / block_number: Ok(Some(number)) or ChainLookup
block_number(hash) ==
    IF hash \in Blocks THEN [ok |-> TRUE, number |-> Header(hash).number]
    ELSE [ok |-> FALSE, number |-> 0]

\* grandpa_support::walk_backwards_to_target_block: follow parent_hash from
\* the block `hash` until the block with number `number` is reached.
RECURSIVE walk_backwards_to_target_block(_, _)
walk_backwards_to_target_block(number, hash) ==
    IF hash \notin Blocks THEN [ok |-> FALSE, hash |-> Unknown]
    ELSE IF Header(hash).number = number THEN [ok |-> TRUE, hash |-> hash]
    ELSE IF Header(hash).number < number THEN [ok |-> FALSE, hash |-> Unknown]
    ELSE walk_backwards_to_target_block(number, Header(hash).parent_hash)

(***************************************************************************)
(* Results: Result<Option<Hash>, ConsensusError>                           *)
(***************************************************************************)
Pending == [tag |-> "Pending", val |-> NoneHash, err |-> ""]
Ok(opt) == [tag |-> "Ok", val |-> opt, err |-> ""]
Err(e) == [tag |-> "Err", val |-> NoneHash, err |-> e]
\* the call does not return: a subtraction of block numbers went below 0
\* ("attempt to subtract with overflow")
Overflow == [tag |-> "Overflow", val |-> NoneHash, err |-> ""]

\* Result<Vec<Hash>, ConsensusError> of leaves and
\* Result<PolkadotHeader, ConsensusError> of best_chain
NoHeader == [number |-> 0, parent_hash |-> Unknown]
LeavesPending == [tag |-> "Pending", leaves |-> <<>>, header |-> NoHeader, err |-> ""]
OkLeaves(list) == [tag |-> "Ok", leaves |-> list, header |-> NoHeader, err |-> ""]
OkHeader(header) == [tag |-> "Ok", leaves |-> <<>>, header |-> header, err |-> ""]
ErrLeaves(e) == [tag |-> "Err", leaves |-> <<>>, header |-> NoHeader, err |-> e]

\* a subtraction that gives the distance of the two numbers
saturating_sub_Distance(a, b) == IF a >= b THEN a - b ELSE b - a

\* u32::saturating_sub
saturating_sub(a, b) == IF a >= b THEN a - b ELSE 0

\* u32::checked_sub
checked_sub(a, b) == IF a >= b THEN Some(a - b) ELSE NoneNumber

(***************************************************************************)
(* finality_target, stage by stage                                         *)
(***************************************************************************)

\* ConstrainToMax with the walk back to `max` left out: a leaf above `max`
\* is kept.
ConstrainToMax_NoWalk(target_hash_, target_number_, maybe_max, head) ==
    IF ~maybe_max.some THEN [tag |-> "Head", head |-> head, result |-> Pending]
    ELSE IF maybe_max.v <= target_number_
         THEN [tag |-> "Return", head |-> head, result |-> Ok(Some(target_hash_))]
    ELSE IF ~block_header(head).ok
         THEN [tag |-> "Return", head |-> head, result |-> Err("ChainLookup")]
         ELSE [tag |-> "Head", head |-> head, result |-> Pending]

\* ConstrainToMax that declines to vote when max is not above the target
ConstrainToMax_NoVote(target_hash_, target_number_, maybe_max, head) ==
    IF ~maybe_max.some THEN [tag |-> "Head", head |-> head, result |-> Pending]
    ELSE IF maybe_max.v <= target_number_
         THEN [tag |-> "Return", head |-> head, result |-> Ok(NoneHash)]
    ELSE LET subchain_header == block_header(head) IN
         IF ~subchain_header.ok
         THEN [tag |-> "Return", head |-> head, result |-> Err("ChainLookup")]
         ELSE IF subchain_header.header.number <= maybe_max.v
              THEN [tag |-> "Head", head |-> head, result |-> Pending]
         ELSE LET w == walk_backwards_to_target_block(maybe_max.v, head) IN
              IF w.ok THEN [tag |-> "Head", head |-> w.hash, result |-> Pending]
              ELSE [tag |-> "Return", head |-> head, result |-> Err("ChainLookup")]

\* 1. Constrain the leaf according to maybe_max_number (the match on
\* maybe_max_number). tag "Head": the constrained subchain head;
\* tag "Return": the function returns `result`.
ConstrainToMax(target_hash_, target_number_, maybe_max, head) ==
    IF ~maybe_max.some THEN [tag |-> "Head", head |-> head, result |-> Pending]
    ELSE IF maybe_max.v <= target_number_
         THEN [tag |-> "Return", head |-> head, result |-> Ok(Some(target_hash_))]
    ELSE LET subchain_header == block_header(head) IN
         IF ~subchain_header.ok
         THEN [tag |-> "Return", head |-> head, result |-> Err("ChainLookup")]
         ELSE IF subchain_header.header.number <= maybe_max.v
              THEN [tag |-> "Head", head |-> head, result |-> Pending]
         ELSE LET w == walk_backwards_to_target_block(maybe_max.v, head) IN
              IF w.ok THEN [tag |-> "Head", head |-> w.hash, result |-> Pending]
              ELSE [tag |-> "Return", head |-> head, result |-> Err("ChainLookup")]

\* DescriptionsMismatch with a subtraction that does not detect a number
\* below the target number.
DescriptionsMismatch_Unchecked(descriptions_len, number, target_number_) ==
    number >= target_number_ /\ descriptions_len # number - target_number_

\* a check that lets through a list shorter than the number difference
DescriptionsMismatch_TooManyOnly(descriptions_len, number, target_number_) ==
    descriptions_len > number - target_number_

\* Prevent sending flawed data to the dispute-coordinator.
DescriptionsMismatch(descriptions_len, number, target_number_) ==
    Some(descriptions_len) # checked_sub(number, target_number_)

\* SafeTarget one block too low
SafeTarget_OneLower(leaf_number) == leaf_number - MAX_FINALITY_LAG - 1

\* the safe target number of the safety net
SafeTarget(leaf_number) == leaf_number - MAX_FINALITY_LAG

\* a safety net that engages on every lag
LagExceeded_Any(lag_) == lag_ >= 0

\* LagExceeded with the comparison made inclusive
LagExceeded_Inclusive(lag_) == lag_ >= MAX_FINALITY_LAG

\* whether the safety net applies to the approval-checking lag
LagExceeded(lag_) == lag_ > MAX_FINALITY_LAG

\* a safety net that engages already at a lag of MAX_FINALITY_LAG
ApplyMaxLag_AtMax(lag_, target_hash_, target_number_, leaf, leaf_number, head) ==
    IF lag_ >= MAX_FINALITY_LAG
    THEN IF leaf_number < MAX_FINALITY_LAG THEN Overflow ELSE
         LET safe_target == SafeTarget(leaf_number) IN
         IF safe_target <= target_number_
         THEN Ok(Some(target_hash_))
         ELSE IF ~block_header(leaf).ok THEN Err("ChainLookup")
         ELSE LET w == walk_backwards_to_target_block(safe_target, leaf) IN
              IF w.ok THEN Ok(Some(w.hash)) ELSE Err("ChainLookup")
    ELSE Ok(Some(head))

\* 4. Apply the maximum safeguard to the finality lag.
ApplyMaxLag(lag_, target_hash_, target_number_, leaf, leaf_number, head) ==
    IF LagExceeded(lag_)
    THEN IF leaf_number < MAX_FINALITY_LAG THEN Overflow ELSE
         LET safe_target == SafeTarget(leaf_number) IN
         IF safe_target <= target_number_
         THEN Ok(Some(target_hash_))
         ELSE IF ~block_header(leaf).ok THEN Err("ChainLookup")
         ELSE LET w == walk_backwards_to_target_block(safe_target, leaf) IN
              IF w.ok THEN Ok(Some(w.hash)) ELSE Err("ChainLookup")
    ELSE Ok(Some(head))

(***************************************************************************)
(* Inputs and oracle replies                                               *)
(***************************************************************************)
Targets == {M(1), M(2), F(2), Unknown}

MaxNumbers == {NoneNumber} \cup
    {Some(n) : n \in {0, 1, 2, 3, ChainLen - 1, ChainLen + 1}}

\* ChainSelectionMessage::BestLeafContaining replies
BestLeafReplies == {NoneHash} \cup {Some(h) : h \in {M(ChainLen), F(ForkTop), Unknown}}

ReplyHashes == {M(n) : n \in 1..MaxReply} \cup {M(ChainLen), F(2), Unknown}

ReplyNumbers == (0..MaxReply) \cup {ChainLen, ChainLen + 1}

DescriptionLens == (0..(MaxReply - 1)) \cup {ChainLen - 2, ChainLen - 1}

\* replies to Leaves: lists of at most MaxLeaves hashes
LeavesReplies ==
    UNION {[1..n -> {M(ChainLen), F(ForkTop), Unknown}] : n \in 0..MaxLeaves}

NoneApproved == [some |-> FALSE, hash |-> Unknown, number |-> 0, descriptions |-> 0]

\* ApprovalVotingMessage::ApprovedAncestor replies:
\* Option<HighestApprovedAncestorBlock>; the block descriptions are
\* represented by their count.
ApprovedAncestorReplies == {NoneApproved} \cup
    [some : {TRUE}, hash : ReplyHashes, number : ReplyNumbers,
     descriptions : DescriptionLens]

NoneUndisputed == [some |-> FALSE, number |-> 0, hash |-> Unknown]

\* DisputeCoordinatorMessage::DetermineUndisputedChain replies:
\* Option<(BlockNumber, Hash)>
UndisputedChainReplies == {NoneUndisputed} \cup
    [some : {TRUE}, number : {1, 2, MaxReply, ChainLen + 1},
     hash : ReplyHashes \ {M(MaxReply)}]

(***************************************************************************)
(* State of one finality_target call                                       *)
(***************************************************************************)
VARIABLES
    pc,                 \* "idle", the request awaited, or "returned"
    target_hash, maybe_max_number,
    best,               \* reply to BestLeafContaining
    target_number,
    initial_leaf, initial_leaf_number,
    approved,           \* reply to ApprovedAncestor
    subchain_head, subchain_number, subchain_block_descriptions,
    lag,
    undisputed,         \* reply to DetermineUndisputedChain
    lag_disputes,
    sent,               \* requests sent to the overseer, in order
    result,             \* what finality_target returned
    called,             \* the operation called: "leaves", "best_chain",
                        \* "finality_target", or "" before the call
    leaves_result,      \* what leaves or best_chain returned
    leaves_reply,       \* reply to Leaves
    dropped             \* the reply sender of the awaited request was dropped

selVars == <<pc, target_hash, maybe_max_number, best, target_number,
             initial_leaf, initial_leaf_number, approved, subchain_head,
             subchain_number, subchain_block_descriptions, lag, undisputed,
             lag_disputes, sent, result, called, leaves_result, leaves_reply,
             dropped>>

(***************************************************************************)
(* State of the runtime while a block executes                             *)
(***************************************************************************)
VARIABLES
    Included,           \* the storage value Included: TRUE for Some(())
    parent_hash,        \* frame_system::Pallet::parent_hash()
    block_weight,       \* frame_system::Pallet::block_weight().total()
    phase,              \* "executing", "finalized", or "panicked"
    entered,            \* enter calls dispatched in this block
    succeeded,          \* of which returned Ok
    last_origin,        \* origin, parent header and backed candidates of
    last_parent_header, \* the latest enter call
    last_backed_candidates,
    ret,                \* what the latest enter call returned
    ops,                \* collaborator calls the latest enter call made
    previous_block      \* "finalized" when a block was finalized before
                        \* this one, "" when none was

inhVars == <<Included, parent_hash, block_weight, phase, entered, succeeded,
             last_origin, last_parent_header, last_backed_candidates, ret,
             ops, previous_block>>

\* a call of limit_backed_candidates: the candidates given, the weight the
\* block has consumed, the candidates returned
VARIABLES
    lim_called,
    lim_backed_candidates,
    lim_block_weight,
    lim_returned

limVars == <<lim_called, lim_backed_candidates, lim_block_weight, lim_returned>>

\* a call of create_inherent and the dispatch of the call it returned
VARIABLES
    cre_pc,             \* "idle", "created", or "dispatched"
    cre_input,          \* the InherentData given
    cre_filtered,       \* the data after filter_multi_dispute_data
    cre_env,            \* what the collaborators returned to the dry run
    cre_dry,            \* what the dry run of enter returned
    cre_call,           \* the call returned: None, or Some(enter(data))
    cre_dispatched      \* what dispatching the returned call returned

creVars == <<cre_pc, cre_input, cre_filtered, cre_env, cre_dry, cre_call,
             cre_dispatched>>

\* SelectRelayChainWithFallback: the overseer handle shared with the selector
\* and what answered the calls
VARIABLES
    overseer,           \* "Disconnected" until connect_to_overseer, then
                        \* "Connected"
    fallback_called,    \* the call in progress was given to the fallback
    previous            \* what answered the call before: "fallback",
                        \* "selection", or "" for none

fbVars == <<overseer, fallback_called, previous>>

vars == <<selVars, inhVars, limVars, creVars, fbVars>>

\* what a step of finality_target, and a step of the inherent, leave alone
notSelVars == <<inhVars, limVars, creVars, fbVars>>
notInhVars == <<selVars, limVars, creVars, fbVars>>
notLimVars == <<selVars, inhVars, creVars, fbVars>>

SelInit ==
    /\ pc = "idle"
    /\ target_hash = Unknown
    /\ maybe_max_number = NoneNumber
    /\ best = NoneHash
    /\ target_number = 0
    /\ initial_leaf = Unknown
    /\ initial_leaf_number = 0
    /\ approved = NoneApproved
    /\ subchain_head = Unknown
    /\ subchain_number = 0
    /\ subchain_block_descriptions = 0
    /\ lag = 0
    /\ undisputed = NoneUndisputed
    /\ lag_disputes = 0
    /\ sent = <<>>
    /\ result = Pending
    /\ called = ""
    /\ leaves_result = LeavesPending
    /\ leaves_reply = <<>>
    /\ dropped = FALSE

\* finality_target is called: BestLeafContaining(target_hash) is sent
FinalityTarget(t, max) ==
    /\ pc = "idle"
    /\ UNCHANGED notSelVars
    /\ called' = "finality_target"
    /\ UNCHANGED <<leaves_result, leaves_reply, dropped>>
    /\ target_hash' = t
    /\ maybe_max_number' = max
    /\ sent' = Append(sent, [msg |-> "BestLeafContaining", hash |-> t,
                             number |-> 0, descriptions |-> 0])
    /\ pc' = "BestLeafContaining"
    /\ UNCHANGED <<best, target_number, initial_leaf, initial_leaf_number,
                   approved, subchain_head, subchain_number,
                   subchain_block_descriptions, lag, undisputed,
                   lag_disputes, result>>

\* a reply after which the call keeps waiting
Return_Waits(r) ==
    /\ pc' = pc
    /\ result' = r

\* the function returns r
Return(r) ==
    /\ pc' = "returned"
    /\ result' = r

\* the reply to BestLeafContaining arrives: stage 1, then ApprovedAncestor
\* is sent
BestLeafReply(reply) ==
    /\ pc = "BestLeafContaining"
    /\ UNCHANGED notSelVars
    /\ UNCHANGED <<called, leaves_result, leaves_reply, dropped>>
    /\ best' = reply
    /\ UNCHANGED <<target_hash, maybe_max_number, approved, subchain_number,
                   subchain_block_descriptions, lag, undisputed, lag_disputes>>
    /\ IF ~reply.some
       THEN \* No viable leaves containing the block.
            /\ Return(Ok(Some(target_hash)))
            /\ UNCHANGED <<target_number, initial_leaf, initial_leaf_number,
                           subchain_head, sent>>
       ELSE LET tn == block_number(target_hash) IN
            IF ~tn.ok
            THEN /\ Return(Err("ChainLookup"))
                 /\ subchain_head' = reply.v
                 /\ UNCHANGED <<target_number, initial_leaf,
                                initial_leaf_number, sent>>
            ELSE LET c == ConstrainToMax(target_hash, tn.number,
                                         maybe_max_number, reply.v) IN
                 /\ target_number' = tn.number
                 /\ subchain_head' = c.head
                 /\ IF c.tag = "Return"
                    THEN /\ Return(c.result)
                         /\ UNCHANGED <<initial_leaf, initial_leaf_number, sent>>
                    ELSE LET ln == block_number(c.head) IN
                         /\ initial_leaf' = c.head
                         /\ IF ~ln.ok
                            THEN /\ Return(Err("ChainLookup"))
                                 /\ UNCHANGED <<initial_leaf_number, sent>>
                            ELSE /\ initial_leaf_number' = ln.number
                                 /\ sent' = Append(sent,
                                        [msg |-> "ApprovedAncestor",
                                         hash |-> c.head,
                                         number |-> tn.number,
                                         descriptions |-> 0])
                                 /\ pc' = "ApprovedAncestor"
                                 /\ UNCHANGED result

\* the reply to ApprovedAncestor arrives: stage 2, then
\* DetermineUndisputedChain is sent
ApprovedAncestorReply(reply) ==
    /\ pc = "ApprovedAncestor"
    /\ UNCHANGED notSelVars
    /\ UNCHANGED <<called, leaves_result, leaves_reply, dropped>>
    /\ approved' = reply
    /\ LET head == IF reply.some THEN reply.hash ELSE target_hash
           number == IF reply.some THEN reply.number ELSE target_number
           descriptions == IF reply.some THEN reply.descriptions ELSE 0
       IN
       /\ subchain_head' = head
       /\ subchain_number' = number
       /\ subchain_block_descriptions' = descriptions
       /\ IF DescriptionsMismatch(descriptions, number, target_number)
          THEN /\ Return(Ok(Some(target_hash)))
               /\ UNCHANGED <<lag, sent>>
          ELSE /\ lag' = saturating_sub(initial_leaf_number, number)
               /\ sent' = Append(sent,
                      [msg |-> "DetermineUndisputedChain", hash |-> Unknown,
                       number |-> target_number,
                       descriptions |-> descriptions])
               /\ pc' = "DetermineUndisputedChain"
               /\ UNCHANGED result
    /\ UNCHANGED <<target_hash, maybe_max_number, best, target_number,
                   initial_leaf, initial_leaf_number, undisputed, lag_disputes>>

\* the reply to DetermineUndisputedChain arrives: stages 3 and 4
UndisputedChainReply(reply) ==
    /\ pc = "DetermineUndisputedChain"
    /\ UNCHANGED notSelVars
    /\ UNCHANGED <<called, leaves_result, leaves_reply, dropped>>
    /\ undisputed' = reply
    /\ LET number == IF reply.some THEN reply.number ELSE subchain_number
           head == IF reply.some THEN reply.hash ELSE subchain_head
       IN
       /\ subchain_number' = number
       /\ subchain_head' = head
       /\ lag_disputes' = saturating_sub(initial_leaf_number, number)
       /\ Return(ApplyMaxLag(lag, target_hash, target_number, initial_leaf,
                             initial_leaf_number, head))
    /\ UNCHANGED <<target_hash, maybe_max_number, best, target_number,
                   initial_leaf, initial_leaf_number, approved,
                   subchain_block_descriptions, lag, sent>>

\* leaves or best_chain is called: ChainSelectionMessage::Leaves is sent
Leaves(op) ==
    /\ pc = "idle"
    /\ UNCHANGED notSelVars
    /\ called' = op
    /\ sent' = Append(sent, [msg |-> "Leaves", hash |-> Unknown,
                             number |-> 0, descriptions |-> 0])
    /\ pc' = "Leaves"
    /\ UNCHANGED <<target_hash, maybe_max_number, best, target_number,
                   initial_leaf, initial_leaf_number, approved, subchain_head,
                   subchain_number, subchain_block_descriptions, lag,
                   undisputed, lag_disputes, result, leaves_result,
                   leaves_reply, dropped>>

\* best_chain that picks the last leaf replied
best_chain_LastLeaf(reply) ==
    IF reply = <<>> THEN ErrLeaves("EmptyLeaves")
    ELSE IF block_header(reply[Len(reply)]).ok
         THEN OkHeader(block_header(reply[Len(reply)]).header)
         ELSE ErrLeaves("ChainLookup")

\* what best_chain makes of the leaves replied: the header of the first
best_chain(reply) ==
    IF reply = <<>> THEN ErrLeaves("EmptyLeaves")
    ELSE IF block_header(reply[1]).ok
         THEN OkHeader(block_header(reply[1]).header)
         ELSE ErrLeaves("ChainLookup")

\* the reply to Leaves arrives
LeavesReply(reply) ==
    /\ pc = "Leaves"
    /\ UNCHANGED notSelVars
    /\ leaves_reply' = reply
    /\ leaves_result' = IF called = "leaves" THEN OkLeaves(reply)
                        ELSE best_chain(reply)
    /\ pc' = "returned"
    /\ UNCHANGED <<target_hash, maybe_max_number, best, target_number,
                   initial_leaf, initial_leaf_number, approved, subchain_head,
                   subchain_number, subchain_block_descriptions, lag,
                   undisputed, lag_disputes, sent, result, called, dropped>>

\* rx.await.map_err(Error::OverseerDisconnected)
\*         .map_err(|e| ConsensusError::Other(Box::new(e)))?
CanceledError == "OverseerDisconnected"

\* a canceled receiver answered with the minimal vote
CanceledResult_VoteTarget == Ok(Some(target_hash))

CanceledResult == Err(CanceledError)

\* the reply sender of the awaited request is dropped: rx.await is canceled
ReplyCanceled ==
    /\ pc \in {"Leaves", "BestLeafContaining", "ApprovedAncestor",
               "DetermineUndisputedChain"}
    /\ UNCHANGED notSelVars
    /\ dropped' = TRUE
    /\ pc' = "returned"
    /\ IF pc = "Leaves"
       THEN leaves_result' = ErrLeaves(CanceledError) /\ UNCHANGED result
       ELSE result' = CanceledResult /\ UNCHANGED leaves_result
    /\ UNCHANGED <<called, leaves_reply>>
    /\ UNCHANGED <<target_hash, maybe_max_number, best, target_number,
                   initial_leaf, initial_leaf_number, approved, subchain_head,
                   subchain_number, subchain_block_descriptions, lag,
                   undisputed, lag_disputes, sent>>

SelNext ==
    \/ \E op \in {"leaves", "best_chain"} : Leaves(op)
    \/ \E reply \in LeavesReplies : LeavesReply(reply)
    \/ \E t \in Targets, max \in MaxNumbers : FinalityTarget(t, max)
    \/ \E reply \in BestLeafReplies : BestLeafReply(reply)
    \/ \E reply \in ApprovedAncestorReplies : ApprovedAncestorReply(reply)
    \/ \E reply \in UndisputedChainReplies : UndisputedChainReply(reply)
    \/ ReplyCanceled



(***************************************************************************)
(* The parachains inherent                                                 *)
(***************************************************************************)

\* Headers a ParachainsInherentData may carry as parent_header
Headers == {[number |-> 0, state_root |-> "r0"],
            [number |-> 0, state_root |-> "r1"]}

\* HeaderT::hash: a header's hash is determined by its content
header_hash(header) == <<"hash", header.number, header.state_root>>

\* DispatchResultWithPostInfo
NoReturn == [tag |-> "None", weight |-> 0, err |-> ""]
DispatchOk(w) == [tag |-> "Ok", weight |-> w, err |-> ""]
DispatchErr(e) == [tag |-> "Err", weight |-> 0, err |-> e]

\* A call of a collaborator (disputes, inclusion, scheduler, ump) or a write
\* of Included, with the cores passed or returned, the statements,
\* bitfields or candidates passed and, for a fallible call or a predicate,
\* what it returned.
Call(op) == [op |-> op, cores |-> <<>>, arg |-> <<>>, ok |-> TRUE]
CallCores(op, cores) == [op |-> op, cores |-> cores, arg |-> <<>>, ok |-> TRUE]
CallArg(op, arg, ok) == [op |-> op, cores |-> <<>>, arg |-> arg, ok |-> ok]
CallRet(op, ok) == [op |-> op, cores |-> <<>>, arg |-> <<>>, ok |-> ok]

\* ensure_none(origin), ensure!(!Included::exists()), and the check of the
\* submitted parent header against the stored parent hash
Preconditions_NoIncludedCheck(origin, included, parent_header, stored) ==
    IF origin # "none" THEN "BadOrigin"
    ELSE IF header_hash(parent_header) # stored THEN "InvalidParentHeader"
    ELSE "Ok"

Preconditions_NoHeaderCheck(origin, included, parent_header, stored) ==
    IF origin # "none" THEN "BadOrigin"
    ELSE IF included THEN "TooManyInclusionInherents"
    ELSE "Ok"

Preconditions(origin, included, parent_header, stored) ==
    IF origin # "none" THEN "BadOrigin"
    ELSE IF included THEN "TooManyInclusionInherents"
    ELSE IF header_hash(parent_header) # stored THEN "InvalidParentHeader"
    ELSE "Ok"

\* limit_backed_candidates that drops no code upgrade
RetainCodeUpgrades_KeepAll(backed_candidates, code_upgrades) == backed_candidates

\* limit_backed_candidates, first part: ignore any candidates beyond one
\* that contain code upgrades (Vec::retain with the code_upgrades counter)
RECURSIVE RetainCodeUpgrades(_, _)
RetainCodeUpgrades(backed_candidates, code_upgrades) ==
    IF backed_candidates = <<>> THEN <<>>
    ELSE LET c == Head(backed_candidates) IN
         IF c.new_validation_code
         THEN IF code_upgrades >= MAX_CODE_UPGRADES
              THEN RetainCodeUpgrades(Tail(backed_candidates), code_upgrades)
              ELSE <<c>> \o RetainCodeUpgrades(Tail(backed_candidates),
                                               code_upgrades + 1)
         ELSE <<c>> \o RetainCodeUpgrades(Tail(backed_candidates), code_upgrades)

\* limit_backed_candidates that also empties the list of an exactly full block
limit_backed_candidates_Inclusive(backed_candidates, weight) ==
    IF weight >= max_block THEN <<>>
    ELSE RetainCodeUpgrades(backed_candidates, 0)

\* limit_backed_candidates: the retained candidates, or none of them when the
\* block is overloaded
limit_backed_candidates(backed_candidates, weight) ==
    IF weight > max_block THEN <<>>
    ELSE RetainCodeUpgrades(backed_candidates, 0)

\* The concatenation of the three freed lists, as (core, reason) pairs
FreedCores(freed_disputed, freed_concluded, freed_timeout) ==
    [i \in 1..Len(freed_disputed) |->
        [core |-> freed_disputed[i], reason |-> "Concluded"]]
    \o [i \in 1..Len(freed_concluded) |->
        [core |-> freed_concluded[i].core, reason |-> "Concluded"]]
    \o [i \in 1..Len(freed_timeout) |->
        [core |-> freed_timeout[i], reason |-> "TimedOut"]]

\* the freed list handed on as concatenated
SortUnstableByCore_Unsorted(freed) == {freed}

\* sort_unstable_by_key(|pair| pair.0): the orderings of `freed` by core
\* index; the order of pairs with the same core index is not determined.
SortUnstableByCore(freed) ==
    LET n == Len(freed)
        perms == {f \in [1..n -> 1..n] : \A i, j \in 1..n : i # j => f[i] # f[j]}
    IN {[i \in 1..n |-> freed[f[i]]] : f \in
          {g \in perms : \A i \in 1..n : \A j \in 1..n :
                i < j => freed[g[i]].core <= freed[g[j]].core}}

\* the frozen short-circuit: Included is set, the minimal weight returned
FrozenReturn_Unset(ops_) ==
    [ret |-> DispatchOk(MINIMAL_INCLUSION_INHERENT_WEIGHT),
     included |-> FALSE,
     ops |-> ops_]

FrozenReturn(ops_) ==
    [ret |-> DispatchOk(MINIMAL_INCLUSION_INHERENT_WEIGHT),
     included |-> TRUE,
     ops |-> Append(ops_, Call("Included::set"))]

\* the end of enter, once process_candidates returned the occupied cores
FinishEnter_UmpFirst(ops_, occupied, backed_candidates_len) ==
    [ret |-> DispatchOk(MINIMAL_INCLUSION_INHERENT_WEIGHT +
                        backed_candidates_len * BACKED_CANDIDATE_WEIGHT),
     included |-> TRUE,
     ops |-> ops_ \o <<Call("ump::process_pending_upward_messages"),
                       CallCores("scheduler::occupied", occupied),
                       Call("Included::set")>>]

\* the end of enter, claiming the minimal weight whatever was processed
FinishEnter_MinimalWeight(ops_, occupied, backed_candidates_len) ==
    [ret |-> DispatchOk(MINIMAL_INCLUSION_INHERENT_WEIGHT),
     included |-> TRUE,
     ops |-> ops_ \o <<CallCores("scheduler::occupied", occupied),
                       Call("ump::process_pending_upward_messages"),
                       Call("Included::set")>>]

FinishEnter(ops_, occupied, backed_candidates_len) ==
    [ret |-> DispatchOk(MINIMAL_INCLUSION_INHERENT_WEIGHT +
                        backed_candidates_len * BACKED_CANDIDATE_WEIGHT),
     included |-> TRUE,
     ops |-> ops_ \o <<CallCores("scheduler::occupied", occupied),
                       Call("ump::process_pending_upward_messages"),
                       Call("Included::set")>>]

\* the early return of an error: nothing is rolled back
Fail(e, ops_) == [ret |-> DispatchErr(e), included |-> FALSE, ops |-> ops_]

\* Candidates processed whatever the dispute module says of them
ProcessCandidates_Unchecked(ops_, data, env, weight) ==
    LET backed_candidates == limit_backed_candidates(data.backed_candidates, weight)
        asks == [i \in 1..Len(backed_candidates) |->
                    CallArg("disputes::could_be_invalid",
                            <<backed_candidates[i]>>,
                            backed_candidates[i].hash \in env.could_be_invalid)]
        ops2 == Append(ops_ \o asks,
                       CallArg("inclusion::process_candidates",
                               backed_candidates, env.process_candidates.ok))
    IN IF ~env.process_candidates.ok
       THEN Fail("inclusion::Error", ops2)
       ELSE FinishEnter(ops2, env.process_candidates.occupied,
                        Len(backed_candidates))

\* Candidates: limit, refuse the ones that could be invalid, process
ProcessCandidates(ops_, data, env, weight) ==
    LET backed_candidates == limit_backed_candidates(data.backed_candidates, weight)
        checked == {i \in 1..Len(backed_candidates) :
                      \A j \in 1..(i - 1) :
                          backed_candidates[j].hash \notin env.could_be_invalid}
        \* could_be_invalid is asked for each candidate up to the first that
        \* is flagged
        asks == [i \in 1..Cardinality(checked) |->
                    CallArg("disputes::could_be_invalid",
                                   <<backed_candidates[i]>>,
                                   backed_candidates[i].hash \in env.could_be_invalid)]
        ops1 == ops_ \o asks
    IN IF \E i \in 1..Len(backed_candidates) :
              backed_candidates[i].hash \in env.could_be_invalid
       THEN Fail("CandidateCouldBeInvalid", ops1)
       ELSE LET ops2 == Append(ops1,
                    CallArg("inclusion::process_candidates",
                                   backed_candidates, env.process_candidates.ok))
            IN IF ~env.process_candidates.ok
               THEN Fail("inclusion::Error", ops2)
               ELSE FinishEnter(ops2, env.process_candidates.occupied,
                                Len(backed_candidates))

\* enter from the bitfields on, with the cores freed by disputes; `freed` is
\* the sorted list of freed cores
ProcessBitfields(ops_, data, env, weight, freed) ==
    LET ops1 == Append(ops_,
                  [op |-> "inclusion::process_bitfields",
                   cores |-> [i \in 1..Len(env.process_bitfields.freed) |->
                                 env.process_bitfields.freed[i].core],
                   arg |-> data.bitfields,
                   ok |-> env.process_bitfields.ok])
    IN IF ~env.process_bitfields.ok THEN Fail("inclusion::Error", ops1)
       ELSE LET freed_concluded == env.process_bitfields.freed
                notes == [i \in 1..Len(freed_concluded) |->
                            CallArg("disputes::note_included",
                                           <<freed_concluded[i].hash>>, TRUE)]
                sweep == IF env.availability_timeout_predicate.some
                         THEN <<CallCores("inclusion::collect_pending",
                                          env.availability_timeout_predicate.v)>>
                         ELSE <<>>
                ops2 == ops1 \o notes \o sweep
                           \o <<Call("scheduler::clear"),
                                [op |-> "scheduler::schedule", cores |-> freed,
                                 arg |-> <<>>, ok |-> TRUE]>>
            IN ProcessCandidates(ops2, data, env, weight)

\* the freed cores enter hands to the scheduler, before sorting
FreedOf(env) ==
    FreedCores(IF \E i \in 1..Len(env.fresh_disputes.v) :
                     env.fresh_disputes.v[i].session = current_session
               THEN env.collect_disputed ELSE <<>>,
               IF env.process_bitfields.ok THEN env.process_bitfields.freed ELSE <<>>,
               IF env.availability_timeout_predicate.some
               THEN env.availability_timeout_predicate.v ELSE <<>>)

\* Module::enter. `env` holds what the collaborators return; `freed` is the
\* order sort_unstable_by_key leaves the freed cores in.
enter(included, stored, weight, origin, data, env, freed) ==
    LET pre == Preconditions(origin, included, data.parent_header, stored) IN
    IF pre # "Ok" THEN [ret |-> DispatchErr(pre), included |-> included, ops |-> <<>>]
    ELSE LET ops1 == <<CallArg("disputes::provide_multi_dispute_data",
                               data.disputes, env.fresh_disputes.ok)>>
         IN IF ~env.fresh_disputes.ok THEN Fail("disputes::Error", ops1)
            ELSE LET ops2 == Append(ops1, CallRet("disputes::is_frozen", env.is_frozen))
                 IN IF env.is_frozen THEN FrozenReturn(ops2)
                    ELSE LET fresh_disputes == env.fresh_disputes.v
                             any_current_session_disputes ==
                                 \E i \in 1..Len(fresh_disputes) :
                                     fresh_disputes[i].session = current_session
                             ops3 == IF any_current_session_disputes
                                     THEN Append(ops2,
                                            CallCores("inclusion::collect_disputed",
                                                      env.collect_disputed))
                                     ELSE ops2
                         IN ProcessBitfields(ops3, data, env, weight, freed)

(***************************************************************************)
(* Inputs of enter and replies of its collaborators                        *)
(***************************************************************************)
Origins == {"none", "signed"}

CandidateA == [hash |-> "a", new_validation_code |-> FALSE]
CandidateB == [hash |-> "b", new_validation_code |-> TRUE]
CandidateC == [hash |-> "c", new_validation_code |-> TRUE]

BackedCandidateLists ==
    {<<>>, <<CandidateA>>, <<CandidateB, CandidateC>>, <<CandidateA, CandidateB>>}

\* ParachainsInherentData; a bitfield or a dispute statement set is
\* represented by a token
InherentDatas ==
    [parent_header : Headers,
     bitfields : {<<>>, <<"bitfield">>},
     backed_candidates : BackedCandidateLists,
     disputes : {<<>>, <<"statements">>}]

OkList(v) == [ok |-> TRUE, v |-> v]
ErrList == [ok |-> FALSE, v |-> <<>>]

\* what the collaborators return when nothing is asked of them
NoEnv ==
    [fresh_disputes |-> OkList(<<>>),
     is_frozen |-> FALSE,
     collect_disputed |-> <<>>,
     process_bitfields |-> [ok |-> TRUE, freed |-> <<>>],
     availability_timeout_predicate |-> [some |-> FALSE, v |-> <<>>],
     could_be_invalid |-> {},
     process_candidates |-> [ok |-> TRUE, occupied |-> <<>>]]

\* What the disputes, inclusion and scheduler modules may return to an
\* enter call carrying `data` in a block of consumed weight `weight`: no
\* fresh disputes without dispute statements, no concluded availability
\* without bitfields, no occupied core without a backed candidate.
EnvsFor(data, weight) ==
    [fresh_disputes :
        IF data.disputes = <<>> THEN {OkList(<<>>)}
        ELSE {ErrList, OkList(<<>>),
              OkList(<<[session |-> current_session, candidate |-> "a"]>>),
              OkList(<<[session |-> current_session - 1, candidate |-> "a"]>>)},
     is_frozen : BOOLEAN,
     collect_disputed : {<<1>>},
     process_bitfields :
        IF data.bitfields = <<>> THEN {[ok |-> TRUE, freed |-> <<>>]}
        ELSE {[ok |-> FALSE, freed |-> <<>>],
              [ok |-> TRUE, freed |-> <<>>],
              [ok |-> TRUE, freed |-> <<[core |-> 1, hash |-> "a"]>>]},
     availability_timeout_predicate :
        {[some |-> FALSE, v |-> <<>>], [some |-> TRUE, v |-> <<0>>]},
     could_be_invalid : {{}, {"b"}, {"c"}},
     process_candidates :
        IF limit_backed_candidates(data.backed_candidates, weight) = <<>>
        THEN {[ok |-> TRUE, occupied |-> <<>>]}
        ELSE {[ok |-> FALSE, occupied |-> <<>>], [ok |-> TRUE, occupied |-> <<0>>]}]

ParentHashes == {header_hash(h) : h \in Headers}

BlockWeights == {max_block, max_block + 1}

(***************************************************************************)
(* The block: on_initialize, the enter calls, on_finalize                  *)
(***************************************************************************)
InhInit ==
    /\ Included = FALSE
    /\ parent_hash \in ParentHashes
    /\ block_weight \in BlockWeights
    /\ phase = "executing"
    /\ entered = 0
    /\ succeeded = 0
    /\ last_origin = "none"
    /\ last_parent_header \in {h \in Headers : header_hash(h) = parent_hash}
    /\ last_backed_candidates = <<>>
    /\ ret = NoReturn
    /\ ops = <<>>
    /\ previous_block = ""

\* the state an enter call leaves
EnterStep(origin, data, out) ==
    /\ Included' = out.included
    /\ ret' = out.ret
    /\ ops' = out.ops
    /\ entered' = entered + 1
    /\ succeeded' = succeeded + (IF out.ret.tag = "Ok" THEN 1 ELSE 0)
    /\ last_origin' = origin
    /\ last_parent_header' = data.parent_header
    /\ last_backed_candidates' = data.backed_candidates
    /\ UNCHANGED <<parent_hash, block_weight, phase, previous_block>>
    /\ UNCHANGED notInhVars

\* enter is dispatched
Enter ==
    /\ phase = "executing"
    /\ entered < MaxEnters
    /\ \E origin \in Origins, data \in InherentDatas :
          IF Preconditions(origin, Included, data.parent_header, parent_hash) # "Ok"
          THEN EnterStep(origin, data,
                         enter(Included, parent_hash, block_weight, origin,
                               data, NoEnv, <<>>))
          ELSE \E env \in EnvsFor(data, block_weight) :
                  \E freed \in SortUnstableByCore(FreedOf(env)) :
                      EnterStep(origin, data,
                                enter(Included, parent_hash, block_weight,
                                      origin, data, env, freed))

\* on_finalize that never rejects the block
on_finalize_NoPanic ==
    /\ phase = "executing"
    /\ Included' = FALSE
    /\ phase' = "finalized"
    /\ UNCHANGED <<parent_hash, block_weight, entered, succeeded, last_origin,
                   last_parent_header, last_backed_candidates, ret, ops,
                   previous_block>>
    /\ UNCHANGED notInhVars

\* on_finalize that reads Included and leaves it in storage
on_finalize_Get ==
    /\ phase = "executing"
    /\ IF Included
       THEN Included' = TRUE /\ phase' = "finalized"
       ELSE Included' = FALSE /\ phase' = "panicked"
    /\ UNCHANGED <<parent_hash, block_weight, entered, succeeded, last_origin,
                   last_parent_header, last_backed_candidates, ret, ops,
                   previous_block>>
    /\ UNCHANGED notInhVars

\* on_finalize: Included::take(), panic when it was None
on_finalize ==
    /\ phase = "executing"
    /\ IF Included
       THEN Included' = FALSE /\ phase' = "finalized"
       ELSE Included' = FALSE /\ phase' = "panicked"
    /\ UNCHANGED <<parent_hash, block_weight, entered, succeeded, last_origin,
                   last_parent_header, last_backed_candidates, ret, ops,
                   previous_block>>
    /\ UNCHANGED notInhVars

\* the next block is initialized (after a panic: on the state the rejected
\* block started from); on_initialize itself writes nothing
on_initialize ==
    /\ phase \in {"finalized", "panicked"}
    /\ phase' = "executing"
    /\ parent_hash' \in ParentHashes
    /\ block_weight' \in BlockWeights
    /\ entered' = 0
    /\ succeeded' = 0
    /\ last_origin' = "none"
    /\ last_parent_header' \in {h \in Headers : header_hash(h) = parent_hash'}
    /\ last_backed_candidates' = <<>>
    /\ ret' = NoReturn
    /\ ops' = <<>>
    /\ previous_block' = IF phase = "finalized" THEN "finalized"
                         ELSE previous_block
    /\ UNCHANGED Included
    /\ UNCHANGED notInhVars

InhNext ==
    \/ Enter
    \/ on_finalize
    \/ on_initialize

(***************************************************************************)
(* limit_backed_candidates on its own                                      *)
(***************************************************************************)
CandidateD == [hash |-> "d", new_validation_code |-> FALSE]

Candidates == {CandidateA, CandidateB, CandidateC, CandidateD}

\* the lists of at most MaxCandidates candidates
CandidateLists ==
    UNION {[1..n -> Candidates] : n \in 0..MaxCandidates}

\* consumed block weights around max_block
ConsumedWeights == {max_block - 1, max_block, max_block + 1}

LimInit ==
    /\ lim_called = FALSE
    /\ lim_backed_candidates = <<>>
    /\ lim_block_weight = 0
    /\ lim_returned = <<>>

\* limit_backed_candidates is called
LimitBackedCandidates ==
    /\ \E backed_candidates \in CandidateLists, weight \in ConsumedWeights :
          /\ lim_called' = TRUE
          /\ lim_backed_candidates' = backed_candidates
          /\ lim_block_weight' = weight
          /\ lim_returned' = limit_backed_candidates(backed_candidates, weight)
    /\ UNCHANGED notLimVars

LimNext == LimitBackedCandidates

(***************************************************************************)
(* create_inherent                                                         *)
(***************************************************************************)
\* the payload create_inherent falls back to
EmptiedData(inherent_data) ==
    [parent_header |-> inherent_data.parent_header,
     bitfields |-> <<>>,
     backed_candidates |-> <<>>,
     disputes |-> <<>>]

NoData == EmptiedData([parent_header |-> [number |-> 0, state_root |-> "r0"]])

NoCall == [some |-> FALSE, data |-> NoData]
SomeCall(inherent_data) == [some |-> TRUE, data |-> inherent_data]

\* create_inherent that keeps the disputes of a payload that failed
CreatedCall_KeepDisputes(inherent_data, dry) ==
    IF dry.tag = "Ok" THEN SomeCall(inherent_data)
    ELSE SomeCall([EmptiedData(inherent_data) EXCEPT
                      !.disputes = inherent_data.disputes])

\* the call create_inherent returns once enter was tried on inherent_data
CreatedCall(inherent_data, dry) ==
    IF dry.tag = "Ok" THEN SomeCall(inherent_data)
    ELSE SomeCall(EmptiedData(inherent_data))

\* data.get_data(INHERENT_IDENTIFIER): Ok(None), Err(_), or Ok(Some(d))
InherentDataInputs ==
    {[kind |-> k, data |-> NoData] : k \in {"absent", "undecodable"}}
    \cup {[kind |-> "data", data |-> d] : d \in InherentDatas}

\* filter_multi_dispute_data keeps some of the dispute statements
FilteredDisputes(disputes) == {disputes, <<>>}

CreInit ==
    /\ cre_pc = "idle"
    /\ cre_input = [kind |-> "absent", data |-> NoData]
    /\ cre_filtered = NoData
    /\ cre_env = NoEnv
    /\ cre_dry = NoReturn
    /\ cre_call = NoCall
    /\ cre_dispatched = NoReturn

\* what create_inherent leaves, having tried enter on the filtered data
CreateStep(input, filtered, env, out) ==
    /\ cre_pc' = "created"
    /\ cre_input' = input
    /\ cre_filtered' = filtered
    /\ cre_env' = env
    /\ cre_dry' = out.ret
    /\ cre_call' = CreatedCall(filtered, out.ret)
    /\ Included' = out.included
    /\ UNCHANGED cre_dispatched

\* create_inherent, called on a block in which no enter was dispatched yet
CreateInherent ==
    /\ cre_pc = "idle"
    /\ phase = "executing" /\ entered = 0
    /\ \E input \in InherentDataInputs :
          IF input.kind # "data"
          THEN /\ cre_pc' = "created"
               /\ cre_input' = input
               /\ cre_call' = NoCall
               /\ UNCHANGED <<cre_filtered, cre_env, cre_dry, cre_dispatched,
                              Included>>
          ELSE \E disputes \in FilteredDisputes(input.data.disputes) :
               LET filtered == [input.data EXCEPT !.disputes = disputes] IN
               IF Preconditions("none", Included, filtered.parent_header,
                                parent_hash) # "Ok"
               THEN CreateStep(input, filtered, NoEnv,
                               enter(Included, parent_hash, block_weight,
                                     "none", filtered, NoEnv, <<>>))
               ELSE \E env \in EnvsFor(filtered, block_weight) :
                       \E freed \in SortUnstableByCore(FreedOf(env)) :
                           CreateStep(input, filtered, env,
                                      enter(Included, parent_hash, block_weight,
                                            "none", filtered, env, freed))
    /\ UNCHANGED <<parent_hash, block_weight, phase, entered, succeeded,
                   last_origin, last_parent_header, last_backed_candidates,
                   ret, ops, previous_block>>
    /\ UNCHANGED <<selVars, limVars, fbVars>>

\* The returned call is dispatched on the storage create_inherent left:
\* the dry run is a plain call of enter, and what it wrote (Included, when
\* it returned Ok) is still there.
DispatchCreated ==
    /\ cre_pc = "created"
    /\ cre_call.some
    /\ LET data == cre_call.data IN
       \E env \in EnvsFor(data, block_weight) :
           \E freed \in SortUnstableByCore(FreedOf(env)) :
               LET out == IF Preconditions("none", Included,
                                           data.parent_header,
                                           parent_hash) # "Ok"
                          THEN enter(Included, parent_hash, block_weight,
                                     "none", data, NoEnv, <<>>)
                          ELSE enter(Included, parent_hash, block_weight,
                                     "none", data, env, freed)
               IN /\ cre_dispatched' = out.ret
                  /\ Included' = out.included
    /\ cre_pc' = "dispatched"
    /\ UNCHANGED <<cre_input, cre_filtered, cre_env, cre_dry, cre_call>>
    /\ UNCHANGED <<parent_hash, block_weight, phase, entered, succeeded,
                   last_origin, last_parent_header, last_backed_candidates,
                   ret, ops, previous_block>>
    /\ UNCHANGED <<selVars, limVars, fbVars>>

CreNext ==
    \/ CreateInherent
    \/ DispatchCreated

(***************************************************************************)
(* SelectRelayChainWithFallback                                            *)
(***************************************************************************)
\* Handle::is_disconnected
is_disconnected(handle) == handle = "Disconnected"

\* the predicate evaluated at the first call and kept for the later ones
UseFallback_Cached ==
    IF previous = "" THEN is_disconnected(overseer) ELSE previous = "fallback"

\* if self.selection.overseer.is_disconnected() { return self.fallback... }
UseFallback == is_disconnected(overseer)

\* what sc_consensus::LongestChain answers over the backend
FallbackLeavesResults ==
    {OkLeaves(<<M(ChainLen), F(ForkTop)>>), ErrLeaves("ChainLookup")}
FallbackBestChainResults ==
    {OkHeader(Header(M(ChainLen))), ErrLeaves("ChainLookup")}
FallbackTargetResults(t) ==
    {Ok(Some(t)), Ok(Some(M(ChainLen))), Ok(NoneHash), Err("ChainLookup")}

\* the inputs and oracle replies of the calls made through the wrapper
FbTargets == {M(1), M(2), Unknown}
FbMaxNumbers == {NoneNumber, Some(1), Some(3)}
FbLeavesReplies == {<<>>, <<M(ChainLen)>>}
FbBestLeafReplies == {NoneHash} \cup
    {Some(h) : h \in {M(ChainLen), F(ForkTop), Unknown}}
FbApprovedAncestorReplies ==
    {NoneApproved} \cup
    [some : {TRUE}, hash : {M(2), M(3)}, number : {2, 3}, descriptions : {1}]
FbUndisputedChainReplies ==
    {NoneUndisputed,
     [some |-> TRUE, number |-> 1, hash |-> M(1)],
     [some |-> TRUE, number |-> ChainLen + 1, hash |-> Unknown]}

FbInit ==
    /\ overseer = "Disconnected"
    /\ fallback_called = FALSE
    /\ previous = ""

\* connect_to_overseer: the handle and its clones are connected
connect_to_overseer ==
    /\ overseer' = "Connected"
    /\ UNCHANGED <<fallback_called, previous>>
    /\ UNCHANGED <<selVars, inhVars, limVars, creVars>>

\* self.fallback.leaves() / best_chain() / finality_target(): the longest
\* chain selector answers, the overseer is sent nothing
Fallback(op, res, lres) ==
    /\ pc = "idle"
    /\ pc' = "returned"
    /\ called' = op
    /\ fallback_called' = TRUE
    /\ result' = res
    /\ leaves_result' = lres
    /\ UNCHANGED <<overseer, previous>>
    /\ UNCHANGED <<target_hash, maybe_max_number, best, target_number,
                   initial_leaf, initial_leaf_number, approved, subchain_head,
                   subchain_number, subchain_block_descriptions, lag,
                   undisputed, lag_disputes, sent, leaves_reply, dropped>>
    /\ UNCHANGED <<inhVars, limVars, creVars>>

\* SelectRelayChainWithFallback::leaves and ::best_chain
WithFallback_Leaves(op) ==
    IF UseFallback
    THEN \E lres \in IF op = "leaves" THEN FallbackLeavesResults
                     ELSE FallbackBestChainResults :
             Fallback(op, Pending, lres)
    ELSE Leaves(op)

\* SelectRelayChainWithFallback::finality_target
WithFallback_FinalityTarget(t, max) ==
    IF UseFallback
    THEN \E res \in FallbackTargetResults(t) :
             Fallback("finality_target", res, LeavesPending)
    ELSE FinalityTarget(t, max)

\* the caller has the result; the selector is ready for the next call
CallReturned ==
    /\ pc = "returned"
    /\ previous' = IF fallback_called THEN "fallback" ELSE "selection"
    /\ fallback_called' = FALSE
    /\ pc' = "idle"
    /\ target_hash' = Unknown
    /\ maybe_max_number' = NoneNumber
    /\ best' = NoneHash
    /\ target_number' = 0
    /\ initial_leaf' = Unknown
    /\ initial_leaf_number' = 0
    /\ approved' = NoneApproved
    /\ subchain_head' = Unknown
    /\ subchain_number' = 0
    /\ subchain_block_descriptions' = 0
    /\ lag' = 0
    /\ undisputed' = NoneUndisputed
    /\ lag_disputes' = 0
    /\ sent' = <<>>
    /\ result' = Pending
    /\ called' = ""
    /\ leaves_result' = LeavesPending
    /\ leaves_reply' = <<>>
    /\ dropped' = FALSE
    /\ UNCHANGED overseer
    /\ UNCHANGED <<inhVars, limVars, creVars>>

FbNext ==
    \/ connect_to_overseer
    \/ \E op \in {"leaves", "best_chain"} : WithFallback_Leaves(op)
    \/ \E t \in FbTargets, max \in FbMaxNumbers :
           WithFallback_FinalityTarget(t, max)
    \/ \E reply \in FbLeavesReplies : LeavesReply(reply)
    \/ \E reply \in FbBestLeafReplies : BestLeafReply(reply)
    \/ \E reply \in FbApprovedAncestorReplies : ApprovedAncestorReply(reply)
    \/ \E reply \in FbUndisputedChainReplies : UndisputedChainReply(reply)
    \/ ReplyCanceled
    \/ CallReturned

Init == SelInit /\ InhInit /\ LimInit /\ CreInit /\ FbInit

\* every request the call awaits is answered, or its reply sender dropped
Answered ==
    \/ ReplyCanceled
    \/ \E reply \in FbLeavesReplies : LeavesReply(reply)
    \/ \E reply \in FbBestLeafReplies : BestLeafReply(reply)
    \/ \E reply \in FbApprovedAncestorReplies : ApprovedAncestorReply(reply)
    \/ \E reply \in FbUndisputedChainReplies : UndisputedChainReply(reply)

SelLiveNext ==
    \/ \E op \in {"leaves", "best_chain"} : Leaves(op)
    \/ \E t \in FbTargets, max \in FbMaxNumbers : FinalityTarget(t, max)
    \/ Answered

\* one call on SelectRelayChain whose oracles answer or drop the sender
SelLiveSpec == Init /\ [][SelLiveNext]_vars /\ WF_vars(Answered)

\* calls on SelectRelayChainWithFallback, one after the other
FbSpec == Init /\ [][FbNext]_vars

\* calls of limit_backed_candidates
LimSpec == Init /\ [][LimNext]_vars

\* create_inherent and the dispatch of what it returned
CreSpec == Init /\ [][CreNext]_vars

\* one finality_target call
SelSpec == Init /\ [][SelNext]_vars

\* blocks with their enter calls
InhSpec == Init /\ [][InhNext]_vars

(***************************************************************************)
(* Notions the claims about finality_target are stated with                *)
(***************************************************************************)

\* the blocks of the backend from `hash` down to genesis
RECURSIVE Chain(_)
Chain(hash) ==
    IF hash \notin Blocks THEN {}
    ELSE {hash} \cup Chain(Header(hash).parent_hash)

\* blocks of the backend without a child
BackendLeaves == {b \in Blocks : \A c \in Blocks : Header(c).parent_hash # b}

ReturnedOk == pc = "returned" /\ result.tag = "Ok"

\* the hash voted for, when ReturnedOk
Vote == result.val.v

\* the call went through all four stages
AllStagesDone == ReturnedOk /\ Len(sent) = 3

\* subchain head and number after the approved-ancestor stage
ApprovedHead == IF approved.some THEN approved.hash ELSE target_hash
ApprovedNumber == IF approved.some THEN approved.number ELSE target_number

\* The oracles answer as their contract says:
\* the best leaf contains the target;
BestContainsTarget == best.some => target_hash \in Chain(best.v)

\* the approved ancestor is an ancestor-or-equal of the head asked about,
\* reported with its number;
ApprovedOnChain ==
    approved.some =>
        /\ approved.hash \in Chain(initial_leaf)
        /\ approved.number = Header(approved.hash).number

\* the undisputed head is one of the blocks above the base up to the
\* approved head, reported with its number.
UndisputedOnChain ==
    undisputed.some =>
        /\ undisputed.hash \in Chain(ApprovedHead)
        /\ undisputed.number = Header(undisputed.hash).number
        /\ undisputed.number >= target_number

OraclesOnChain == BestContainsTarget /\ ApprovedOnChain /\ UndisputedOnChain

VoteOnTargetChain ==
    /\ Vote \in Blocks
    /\ \E l \in BackendLeaves : Vote \in Chain(l)
    /\ target_hash \in Chain(Vote)

(***************************************************************************)
(* C1 as stated: for every target, max and every combination of oracle     *)
(* replies, a successful finality_target returns Some(target) or Some(h)   *)
(* with h an ancestor-or-equal of a leaf and a descendant-or-equal of the  *)
(* target.                                                                 *)
(***************************************************************************)
C1_AnyReplies ==
    ReturnedOk => /\ result.val.some
                  /\ (Vote = target_hash \/ VoteOnTargetChain)

(***************************************************************************)
(* C1, amended: whenever every oracle reply names a block on the chain     *)
(* between the target and the head the oracle was asked about (with its    *)
(* true number), a successful finality_target returns Some(target) or      *)
(* Some(h) with h an ancestor-or-equal of a leaf and a descendant-or-equal *)
(* of the target.                                                          *)
(***************************************************************************)
C1_OnChainReplies ==
    (ReturnedOk /\ OraclesOnChain) =>
        /\ result.val.some
        /\ (Vote = target_hash \/ VoteOnTargetChain)

C1_Witness ==
    /\ AllStagesDone /\ OraclesOnChain
    /\ approved.some /\ undisputed.some
    /\ Vote = undisputed.hash
    /\ Vote # target_hash /\ Vote # approved.hash
    /\ VoteOnTargetChain

(***************************************************************************)
(* C2 as stated: whenever max is supplied, the block a successful          *)
(* finality_target returns has a number <= max, for every max and every    *)
(* combination of oracle replies.                                          *)
(***************************************************************************)
C2_AnyMax ==
    (ReturnedOk /\ maybe_max_number.some /\ Vote \in Blocks) =>
        Header(Vote).number <= maybe_max_number.v

(***************************************************************************)
(* C2, amended: whenever max is supplied and is not below the target's     *)
(* number, and the approval and dispute replies name blocks on the chain   *)
(* of the head they were asked about, the returned block has a number      *)
(* <= max; when max is below the target's number a successful call        *)
(* returns Some(target), whose number is above max.                        *)
(***************************************************************************)
C2_MaxNotBelowTarget ==
    /\ ( /\ ReturnedOk /\ maybe_max_number.some
         /\ target_hash \in Blocks
         /\ maybe_max_number.v >= Header(target_hash).number
         /\ ApprovedOnChain /\ UndisputedOnChain )
       => /\ Vote \in Blocks
          /\ Header(Vote).number <= maybe_max_number.v
    /\ ( /\ ReturnedOk /\ maybe_max_number.some
         /\ target_hash \in Blocks
         /\ maybe_max_number.v < Header(target_hash).number )
       => Vote = target_hash

C2_Witness ==
    /\ AllStagesDone /\ maybe_max_number.some
    /\ ApprovedOnChain /\ UndisputedOnChain
    /\ initial_leaf # best.v
    /\ approved.some
    /\ Vote # target_hash
    /\ Header(Vote).number = maybe_max_number.v

(***************************************************************************)
(* C3 as stated: the returned block is never higher than the approved      *)
(* ancestor reported by approval voting, nor higher than the undisputed    *)
(* chain head reported by the dispute coordinator, unless it is the target *)
(* itself.                                                                 *)
(***************************************************************************)
C3_NeverAboveApproved ==
    (AllStagesDone /\ Vote # target_hash /\ Vote \in Blocks) =>
        /\ Header(Vote).number <= ApprovedNumber
        /\ Header(Vote).number <= subchain_number

(***************************************************************************)
(* C3, amended: provided the oracles reply as their contract says (the     *)
(* approved ancestor is an ancestor-or-equal of the initial leaf, the      *)
(* dispute coordinator's head an ancestor-or-equal of the approved         *)
(* ancestor at or above the target, each reported with its own number),    *)
(* the returned block is never higher than the approved ancestor reported  *)
(* by approval voting nor higher than the undisputed chain head reported   *)
(* by the dispute coordinator, unless it is the target itself or the       *)
(* safety net engaged (approval lag > MAX_FINALITY_LAG), in which case the *)
(* forced block is returned. The replies are returned unverified, so       *)
(* without the proviso the bound does not hold.                            *)
(***************************************************************************)
C3_BelowApprovedUnlessForced ==
    ( /\ AllStagesDone
      /\ ApprovedOnChain /\ UndisputedOnChain
      /\ Vote # target_hash
      /\ lag <= MAX_FINALITY_LAG )
    => /\ Vote \in Blocks
       /\ Header(Vote).number <= ApprovedNumber
       /\ Header(Vote).number <= subchain_number

C3_Witness ==
    /\ AllStagesDone /\ lag = MAX_FINALITY_LAG
    /\ OraclesOnChain
    /\ approved.some /\ undisputed.some
    /\ Vote = undisputed.hash /\ Vote # target_hash
    /\ Header(Vote).number < ApprovedNumber

(***************************************************************************)
(* C4: if approval_lag > MAX_FINALITY_LAG and initial_leaf_number -        *)
(* MAX_FINALITY_LAG > target_number, the returned block is the ancestor of *)
(* the initial leaf at number initial_leaf_number - MAX_FINALITY_LAG,      *)
(* whatever the dispute coordinator replied.                               *)
(***************************************************************************)
C4_ForcedTarget ==
    ( /\ AllStagesDone
      /\ lag > MAX_FINALITY_LAG
      /\ initial_leaf_number - MAX_FINALITY_LAG > target_number )
    => /\ Vote \in Chain(initial_leaf)
       /\ Header(Vote).number = initial_leaf_number - MAX_FINALITY_LAG
       /\ Header(Vote).number >= initial_leaf_number - MAX_FINALITY_LAG

C4_Witness ==
    /\ AllStagesDone
    /\ lag > MAX_FINALITY_LAG
    /\ undisputed.some /\ undisputed.hash # Vote
    /\ Vote \in Chain(initial_leaf)
    /\ Vote # target_hash
    /\ Header(Vote).number = initial_leaf_number - MAX_FINALITY_LAG

(***************************************************************************)
(* Notions the claims about enter are stated with                          *)
(***************************************************************************)

\* the latest step was an enter call
EnterCalled == entered' = entered + 1

\* the storage a call writes: "" for a call that only reads or that failed
WrittenBy(call) ==
    CASE call.op = "disputes::provide_multi_dispute_data" ->
            IF call.ok /\ call.arg # <<>> THEN "disputes" ELSE ""
      [] call.op = "disputes::note_included" -> "disputes"
      [] call.op = "inclusion::collect_disputed" -> "inclusion"
      [] call.op = "inclusion::process_bitfields" ->
            IF call.ok /\ call.arg # <<>> THEN "inclusion" ELSE ""
      [] call.op = "inclusion::collect_pending" -> "inclusion"
      [] call.op = "inclusion::process_candidates" ->
            IF call.ok /\ call.arg # <<>> THEN "inclusion" ELSE ""
      [] call.op = "scheduler::clear" -> "scheduler"
      [] call.op = "scheduler::schedule" -> "scheduler"
      [] call.op = "scheduler::occupied" -> "scheduler"
      [] call.op = "ump::process_pending_upward_messages" -> "ump"
      [] call.op = "Included::set" -> "Included"
      [] OTHER -> ""

\* the storage the latest enter call wrote
Written == {WrittenBy(ops[i]) : i \in 1..Len(ops)} \ {""}

OpNames == {ops[i].op : i \in 1..Len(ops)}

\* the place of a call in the sequence of enter
Rank(op) ==
    CASE op = "disputes::provide_multi_dispute_data" -> 1
      [] op = "disputes::is_frozen" -> 2
      [] op = "inclusion::collect_disputed" -> 3
      [] op = "inclusion::process_bitfields" -> 4
      [] op = "disputes::note_included" -> 5
      [] op = "inclusion::collect_pending" -> 6
      [] op = "scheduler::clear" -> 7
      [] op = "scheduler::schedule" -> 8
      [] op = "disputes::could_be_invalid" -> 9
      [] op = "inclusion::process_candidates" -> 10
      [] op = "scheduler::occupied" -> 11
      [] op = "ump::process_pending_upward_messages" -> 12
      [] op = "Included::set" -> 13

\* the dispute module reported the chain frozen to the latest enter call
ReportedFrozen ==
    \E i \in 1..Len(ops) : ops[i].op = "disputes::is_frozen" /\ ops[i].ok

(***************************************************************************)
(* C5: within one block at most one enter succeeds, and exactly one in a   *)
(* block that is finalized; once an enter has succeeded (the frozen        *)
(* short-circuit included), every later enter of the block fails, with     *)
(* TooManyInclusionInherents when it is dispatched as an inherent (origin  *)
(* none).                                                                  *)
(***************************************************************************)
C5_OneEnterPerBlock ==
    /\ [](succeeded <= 1)
    /\ [](phase = "finalized" => succeeded = 1)
    /\ [][(EnterCalled /\ succeeded >= 1) =>
            /\ ret'.tag = "Err"
            /\ succeeded' = succeeded
            /\ (last_origin' = "none" =>
                    ret' = DispatchErr("TooManyInclusionInherents"))]_vars

C5_Witness ==
    /\ phase = "executing" /\ entered = 2 /\ succeeded = 1
    /\ last_origin = "none"
    /\ ret = DispatchErr("TooManyInclusionInherents")
    /\ Included

(***************************************************************************)
(* C6: after a successful enter Included is set and on_finalize does not   *)
(* panic; on_finalize panics exactly when no enter of the block succeeded. *)
(***************************************************************************)
C6_PanicIffNoEnter ==
    /\ (phase = "executing" /\ succeeded >= 1) => Included
    /\ (phase = "executing" /\ succeeded = 0) => ~Included
    /\ phase = "finalized" => succeeded >= 1
    /\ phase = "panicked" => succeeded = 0

C6_Witness ==
    /\ phase = "finalized" /\ succeeded = 1 /\ ret.tag = "Ok"
    /\ "inclusion::process_candidates" \in OpNames

(***************************************************************************)
(* C7: an enter dispatched as an inherent while Included is unset, whose   *)
(* parent header does not hash to the stored parent hash, fails with       *)
(* InvalidParentHeader, leaves Included unset and calls no dispute,        *)
(* inclusion, scheduler or UMP operation; an on_finalize that follows it   *)
(* panics.                                                                 *)
(***************************************************************************)
C7_InvalidParentHeader ==
    /\ [][(/\ EnterCalled /\ ~Included /\ last_origin' = "none"
           /\ header_hash(last_parent_header') # parent_hash)
          => /\ ret' = DispatchErr("InvalidParentHeader")
             /\ ~Included'
             /\ ops' = <<>>]_vars
    /\ [][(/\ ret = DispatchErr("InvalidParentHeader")
           /\ phase = "executing" /\ phase' # "executing")
          => phase' = "panicked"]_vars

C7_Witness ==
    /\ phase = "panicked" /\ entered = 1
    /\ ret = DispatchErr("InvalidParentHeader")
    /\ header_hash(last_parent_header) # parent_hash
    /\ ops = <<>>

(***************************************************************************)
(* C8 as stated: enter is all-or-nothing; when it returns an error, no     *)
(* write to disputes, inclusion, scheduler, UMP or Included has been made. *)
(***************************************************************************)
C8_AllOrNothing ==
    (entered >= 1 /\ ret.tag = "Err") => Written = {}

(***************************************************************************)
(* C9: in every enter the collaborator operations happen in the order      *)
(* dispute ingestion, collect_disputed, process_bitfields, collect_pending,*)
(* scheduler clear, schedule, process_candidates, occupied,                *)
(* process_pending_upward_messages, Included set: no later step precedes   *)
(* an earlier one, and a successful enter that is not frozen makes all the *)
(* unconditional ones, once each.                                          *)
(***************************************************************************)
C9_FixedOrder ==
    /\ \A i, j \in 1..Len(ops) :
          i < j => Rank(ops[i].op) <= Rank(ops[j].op)
    /\ (entered >= 1 /\ ret.tag = "Ok" /\ ~ReportedFrozen) =>
          \A op \in {"disputes::provide_multi_dispute_data",
                     "inclusion::process_bitfields",
                     "scheduler::clear", "scheduler::schedule",
                     "inclusion::process_candidates", "scheduler::occupied",
                     "ump::process_pending_upward_messages", "Included::set"} :
              Cardinality({i \in 1..Len(ops) : ops[i].op = op}) = 1

C9_Witness ==
    /\ entered >= 1 /\ ret.tag = "Ok" /\ ~ReportedFrozen
    /\ {"inclusion::collect_disputed", "disputes::note_included",
        "inclusion::collect_pending", "disputes::could_be_invalid",
        "scheduler::occupied"} \subseteq OpNames

(***************************************************************************)
(* C10: if the dispute module reports the chain frozen after the dispute   *)
(* ingestion, enter sets Included, returns Ok with post-dispatch weight    *)
(* MINIMAL_INCLUSION_INHERENT_WEIGHT, and processes no bitfields, sweeps   *)
(* no timeouts, does not clear or schedule, processes no candidates and no *)
(* upward messages.                                                        *)
(***************************************************************************)
C10_FrozenShortCircuit ==
    (phase = "executing" /\ ReportedFrozen) =>
        /\ Included
        /\ ret = DispatchOk(MINIMAL_INCLUSION_INHERENT_WEIGHT)
        /\ OpNames = {"disputes::provide_multi_dispute_data",
                      "disputes::is_frozen", "Included::set"}
        /\ Written \subseteq {"disputes", "Included"}

C10_Witness ==
    /\ phase = "executing" /\ ReportedFrozen
    /\ Included
    /\ ret = DispatchOk(MINIMAL_INCLUSION_INHERENT_WEIGHT)
    /\ Len(ops) = 3

(***************************************************************************)
(* C11: a backed candidate is passed to process_candidates only after the  *)
(* dispute module was asked about it and did not flag it as could be       *)
(* invalid; when the dispute module flags a candidate that survived        *)
(* limit_backed_candidates, enter fails with CandidateCouldBeInvalid and   *)
(* process_candidates is not called.                                       *)
(***************************************************************************)
C11_NoFlaggedCandidateProcessed ==
    /\ \A i \in 1..Len(ops) :
          ops[i].op = "inclusion::process_candidates" =>
              \A k \in 1..Len(ops[i].arg) :
                  \E j \in 1..(i - 1) :
                      /\ ops[j].op = "disputes::could_be_invalid"
                      /\ ops[j].arg = <<ops[i].arg[k]>>
                      /\ ~ops[j].ok
    /\ (\E j \in 1..Len(ops) :
            ops[j].op = "disputes::could_be_invalid" /\ ops[j].ok) =>
          /\ ret = DispatchErr("CandidateCouldBeInvalid")
          /\ "inclusion::process_candidates" \notin OpNames
          /\ (phase = "executing" /\ succeeded = 0 => ~Included)

C11_Witness ==
    /\ ret = DispatchErr("CandidateCouldBeInvalid")
    /\ \E j \in 1..Len(ops) :
          /\ ops[j].op = "disputes::could_be_invalid" /\ ops[j].ok
          /\ \E i \in 1..(j - 1) :
                ops[i].op = "disputes::could_be_invalid" /\ ~ops[i].ok
    /\ "scheduler::schedule" \in OpNames
    /\ "inclusion::process_candidates" \notin OpNames

\* the number of times core index c is among the cores of a call
Occurrences(cores, c) == Cardinality({i \in 1..Len(cores) : cores[i] = c})

\* the cores the calls named op of the latest enter passed or returned
CoresOf(op) ==
    IF \E i \in 1..Len(ops) : ops[i].op = op
    THEN (CHOOSE call \in {ops[i] : i \in 1..Len(ops)} : call.op = op).cores
    ELSE <<>>

\* the list given to scheduler::schedule, as core indices
Scheduled ==
    LET freed == CoresOf("scheduler::schedule")
    IN [i \in 1..Len(freed) |-> freed[i].core]

ReachedSchedule == "scheduler::schedule" \in OpNames

(***************************************************************************)
(* C12 as stated: the freed list passed to scheduler::schedule is sorted   *)
(* ascending by core index and holds no core index twice.                  *)
(***************************************************************************)
C12_SortedNoDuplicates ==
    ReachedSchedule =>
        \A i, j \in 1..Len(Scheduled) : i < j => Scheduled[i] < Scheduled[j]

(***************************************************************************)
(* C12 amended: the freed list passed to scheduler::schedule is sorted     *)
(* ascending by core index and holds each core index as many times as      *)
(* collect_disputed, process_bitfields and collect_pending reported it     *)
(* together: nothing is de-duplicated.                                     *)
(***************************************************************************)
C12_SortedAllReported ==
    ReachedSchedule =>
        /\ \A i, j \in 1..Len(Scheduled) : i < j => Scheduled[i] <= Scheduled[j]
        /\ \A c \in 0..2 :
              Occurrences(Scheduled, c) =
                  Occurrences(CoresOf("inclusion::collect_disputed"), c)
                  + Occurrences(CoresOf("inclusion::process_bitfields"), c)
                  + Occurrences(CoresOf("inclusion::collect_pending"), c)

C12_Witness ==
    /\ ReachedSchedule
    /\ Scheduled = <<0, 1, 1>>
    /\ CoresOf("inclusion::collect_disputed") = <<1>>
    /\ CoresOf("inclusion::process_bitfields") = <<1>>
    /\ CoresOf("inclusion::collect_pending") = <<0>>

\* the positions of the input that limit_backed_candidates is to keep: the
\* candidates without a new validation code, and the first one with
KeptPositions(cands) ==
    {i \in 1..Len(cands) :
        cands[i].new_validation_code =>
            \A j \in 1..(i - 1) : ~cands[j].new_validation_code}

\* the k-th smallest member of a set of positions
NthPosition(positions, k) ==
    CHOOSE i \in positions : Cardinality({j \in positions : j < i}) = k - 1

GateOpen == lim_called /\ lim_block_weight <= max_block

(***************************************************************************)
(* C13: when the weight gate does not fire, limit_backed_candidates        *)
(* returns the input without the code-upgrade candidates that follow the   *)
(* first one: at most one returned candidate carries a new validation      *)
(* code, it is the first such candidate of the input, every candidate      *)
(* without a code upgrade is kept, and the relative order is the input's.  *)
(***************************************************************************)
C13_OneCodeUpgrade ==
    GateOpen =>
        LET kept == KeptPositions(lim_backed_candidates) IN
        /\ Len(lim_returned) = Cardinality(kept)
        /\ \A k \in 1..Len(lim_returned) :
              lim_returned[k] = lim_backed_candidates[NthPosition(kept, k)]
        /\ Cardinality({k \in 1..Len(lim_returned) :
                            lim_returned[k].new_validation_code}) <= 1
        /\ SelectSeq(lim_returned, LAMBDA c : ~c.new_validation_code)
              = SelectSeq(lim_backed_candidates, LAMBDA c : ~c.new_validation_code)

C13_Witness ==
    /\ GateOpen
    /\ lim_backed_candidates = <<CandidateA, CandidateC, CandidateB>>
    /\ lim_returned = <<CandidateA, CandidateC>>

(***************************************************************************)
(* C14: the weight gate is all-or-nothing and strict: the empty list when  *)
(* the consumed weight is greater than max_block, the whole                *)
(* code-upgrade-filtered list when it is less than or equal to max_block.  *)
(***************************************************************************)
C14_WeightGate ==
    lim_called =>
        /\ lim_block_weight > max_block => lim_returned = <<>>
        /\ lim_block_weight <= max_block =>
              /\ Len(lim_returned) = Cardinality(KeptPositions(lim_backed_candidates))
              /\ lim_returned = RetainCodeUpgrades(lim_backed_candidates, 0)

C14_Witness ==
    /\ lim_called
    /\ lim_block_weight = max_block
    /\ Len(lim_backed_candidates) = MaxCandidates
    /\ lim_returned = lim_backed_candidates

\* the latest enter call succeeded without the frozen short-circuit
SucceededUnfrozen == entered >= 1 /\ ret.tag = "Ok" /\ ~ReportedFrozen

\* how many of the candidates given to the latest enter call were to survive
\* limit_backed_candidates
Surviving ==
    IF block_weight > max_block THEN 0
    ELSE Cardinality(KeptPositions(last_backed_candidates))

(***************************************************************************)
(* C15: a successful enter that is not frozen returns the post-dispatch    *)
(* weight MINIMAL_INCLUSION_INHERENT_WEIGHT + n * BACKED_CANDIDATE_WEIGHT, *)
(* n the number of candidates that survive limit_backed_candidates (and    *)
(* are passed to process_candidates); exactly the minimal weight in a      *)
(* block over max_block, however many candidates were submitted.           *)
(***************************************************************************)
C15_PostDispatchWeight ==
    SucceededUnfrozen =>
        /\ ret.weight = MINIMAL_INCLUSION_INHERENT_WEIGHT
                          + Surviving * BACKED_CANDIDATE_WEIGHT
        /\ Len(limit_backed_candidates(last_backed_candidates, block_weight))
              = Surviving
        /\ \A i \in 1..Len(ops) :
              ops[i].op = "inclusion::process_candidates" =>
                  Len(ops[i].arg) = Surviving
        /\ block_weight > max_block =>
              ret.weight = MINIMAL_INCLUSION_INHERENT_WEIGHT

C15_Witness ==
    /\ SucceededUnfrozen
    /\ last_backed_candidates = <<CandidateB, CandidateC>>
    /\ ret.weight = MINIMAL_INCLUSION_INHERENT_WEIGHT + BACKED_CANDIDATE_WEIGHT

\* create_inherent has returned
Created == cre_pc \in {"created", "dispatched"}

\* the dry run returned from the checks at the head of enter, before
\* anything was written: the storage is as it was before create_inherent
DryRunWroteNothing ==
    cre_dry \in {DispatchErr("TooManyInclusionInherents"),
                 DispatchErr("InvalidParentHeader")}

(***************************************************************************)
(* C16 as stated: whenever create_inherent returns Some(enter call),       *)
(* dispatching that call in the state create_inherent was called in        *)
(* succeeds, also when the dry run failed and the payload was emptied,     *)
(* whatever error it failed with. (The storage at the dispatch is the one  *)
(* create_inherent was called in when the dry run wrote nothing.)          *)
(***************************************************************************)
C16_CreatedCallSucceeds ==
    (cre_pc = "dispatched" /\ DryRunWroteNothing)
        => cre_dispatched.tag = "Ok"

(***************************************************************************)
(* C17: when the dry run of enter fails, the returned call carries empty   *)
(* bitfields, backed candidates and disputes and the parent header given;  *)
(* when it succeeds, the returned call carries the dispute-filtered data   *)
(* unchanged; when no data is present or it does not decode,               *)
(* create_inherent returns None, without trying enter.                     *)
(***************************************************************************)
C17_CreatedPayload ==
    Created =>
        /\ cre_input.kind # "data" =>
              cre_call = NoCall /\ cre_dry = NoReturn /\ ~Included
        /\ (cre_input.kind = "data" /\ cre_dry.tag = "Err") =>
              /\ cre_call.some
              /\ cre_call.data.bitfields = <<>>
              /\ cre_call.data.backed_candidates = <<>>
              /\ cre_call.data.disputes = <<>>
              /\ cre_call.data.parent_header = cre_input.data.parent_header
        /\ (cre_input.kind = "data" /\ cre_dry.tag = "Ok") =>
              /\ cre_call.some
              /\ cre_call.data = cre_filtered
              /\ cre_call.data.bitfields = cre_input.data.bitfields
              /\ cre_call.data.backed_candidates = cre_input.data.backed_candidates
              /\ cre_call.data.parent_header = cre_input.data.parent_header
        /\ cre_input.kind = "data" => cre_dry.tag \in {"Ok", "Err"}

C17_Witness ==
    /\ Created
    /\ cre_input.kind = "data"
    /\ cre_input.data.disputes # <<>>
    /\ cre_input.data.backed_candidates # <<>>
    /\ cre_dry = DispatchErr("CandidateCouldBeInvalid")
    /\ cre_call = SomeCall(EmptiedData(cre_input.data))

\* the requests of one kind among the requests sent
SentOf(msg) == {i \in 1..Len(sent) : sent[i].msg = msg}

\* approval voting replied Some with a description list whose length is not
\* the distance of its number from the target's
ApprovedMismatch ==
    /\ approved.some
    /\ \/ approved.number < target_number
       \/ approved.descriptions # approved.number - target_number

(***************************************************************************)
(* C18: when approval voting replies Some{hash, number n, descriptions}    *)
(* with a description list whose length differs from n - target_number     *)
(* (n below target_number included), finality_target returns Some(target)  *)
(* and sends no DetermineUndisputedChain; every DetermineUndisputedChain   *)
(* sent carries base_number = target_number and as many descriptions as    *)
(* the stage-3 subchain number exceeds target_number.                      *)
(***************************************************************************)
C18_DescriptionsChecked ==
    /\ ApprovedMismatch =>
          /\ pc = "returned"
          /\ result = Ok(Some(target_hash))
          /\ SentOf("DetermineUndisputedChain") = {}
    /\ \A i \in SentOf("DetermineUndisputedChain") :
          /\ sent[i].number = target_number
          /\ ApprovedNumber >= target_number
          /\ sent[i].descriptions = ApprovedNumber - target_number
          /\ sent[i].descriptions = subchain_block_descriptions

C18_Witness ==
    /\ approved.some
    /\ approved.number < target_number
    /\ approved.descriptions = 0
    /\ pc = "returned"
    /\ result = Ok(Some(target_hash))
    /\ Len(sent) = 2

(***************************************************************************)
(* C19: when the reply sender of a request (Leaves, BestLeafContaining,    *)
(* ApprovedAncestor, DetermineUndisputedChain) is dropped without a reply, *)
(* the operation returns the error OverseerDisconnected and no vote:       *)
(* finality_target does not fall back to Some(target), and no further      *)
(* request is sent.                                                        *)
(***************************************************************************)
C19_CanceledIsError ==
    /\ [](dropped =>
            /\ pc = "returned"
            /\ called = "finality_target" =>
                  /\ result.tag = "Err"
                  /\ result.err = "OverseerDisconnected"
                  /\ ~result.val.some
            /\ called \in {"leaves", "best_chain"} =>
                  /\ leaves_result.tag = "Err"
                  /\ leaves_result.err = "OverseerDisconnected"
                  /\ result = Pending)
    /\ [][(dropped' /\ ~dropped) => sent' = sent]_vars
    /\ [][dropped => sent' = sent]_vars

C19_Witness ==
    /\ dropped
    /\ called = "finality_target"
    /\ Len(sent) = 2 /\ sent[2].msg = "ApprovedAncestor"
    /\ result = Err("OverseerDisconnected")

\* finality_target returned after its first request was answered
ReturnedAtStage1 ==
    /\ called = "finality_target" /\ pc = "returned" /\ ~dropped
    /\ Len(sent) = 1

\* the conservative fallbacks of finality_target
NoBestLeaf == ReturnedAtStage1 /\ ~best.some

MaxNotAboveTarget ==
    /\ ReturnedAtStage1 /\ best.some
    /\ block_number(target_hash).ok
    /\ maybe_max_number.some
    /\ maybe_max_number.v <= block_number(target_hash).number

SafeTargetNotAboveTarget ==
    /\ called = "finality_target" /\ pc = "returned" /\ ~dropped
    /\ Len(sent) = 3
    /\ LagExceeded(lag)
    /\ SafeTarget(initial_leaf_number) <= target_number

(***************************************************************************)
(* C20: finality_target never returns Ok(None): on each conservative       *)
(* fallback (no best leaf containing the target, max <= target_number,     *)
(* description-length mismatch, safe target number <= target_number) it    *)
(* returns Ok(Some(target)), and every other Ok return is Ok(Some(h)) for  *)
(* a block hash h.                                                         *)
(***************************************************************************)
C20_NeverNone ==
    /\ (pc = "returned" /\ result.tag = "Ok") => result.val.some
    /\ NoBestLeaf => result = Ok(Some(target_hash))
    /\ MaxNotAboveTarget => result = Ok(Some(target_hash))
    /\ ApprovedMismatch => result = Ok(Some(target_hash))
    /\ SafeTargetNotAboveTarget => result = Ok(Some(target_hash))
    /\ \A leaf_number \in (MAX_FINALITY_LAG + 1)..ChainLen :
          \A number \in {SafeTarget(leaf_number), SafeTarget(leaf_number) + 1} :
              ApplyMaxLag(MAX_FINALITY_LAG + 1, target_hash, number,
                          M(leaf_number), leaf_number, M(leaf_number))
                  = Ok(Some(target_hash))
    /\ (pc = "returned" /\ called = "finality_target") => result # Pending

C20_Witness ==
    /\ MaxNotAboveTarget
    /\ maybe_max_number.v < block_number(target_hash).number
    /\ result = Ok(Some(target_hash))

(***************************************************************************)
(* C21: leaves and best_chain on the oracle's leaf list                    *)
(***************************************************************************)
\* leaves or best_chain returned after the reply to Leaves arrived
LeavesAnswered ==
    pc = "returned" /\ called \in {"leaves", "best_chain"} /\ ~dropped

\* C21 as stated: on an empty leaf list leaves() returns Ok([]) and
\* best_chain() returns EmptyLeaves; on every non-empty list best_chain()
\* returns the header of the first leaf.
C21_AnyFirstLeaf ==
    LeavesAnswered =>
        /\ (called = "leaves" /\ leaves_reply = <<>>)
               => leaves_result = OkLeaves(<<>>)
        /\ (called = "best_chain" /\ leaves_reply = <<>>)
               => leaves_result = ErrLeaves("EmptyLeaves")
        /\ (called = "best_chain" /\ leaves_reply # <<>>)
               => leaves_result = OkHeader(Header(leaves_reply[1]))

\* C21: on an empty leaf list leaves() returns Ok([]) and best_chain()
\* returns EmptyLeaves; leaves() returns a non-empty list as replied; on a
\* non-empty list best_chain() returns the header of the first leaf when the
\* backend holds it and a ChainLookup error when it does not.
C21_FirstLeafHeader ==
    LeavesAnswered =>
        /\ called = "leaves" => leaves_result = OkLeaves(leaves_reply)
        /\ (called = "best_chain" /\ leaves_reply = <<>>)
               => leaves_result = ErrLeaves("EmptyLeaves")
        /\ (called = "best_chain" /\ leaves_reply # <<>>)
               => IF leaves_reply[1] \in Blocks
                  THEN leaves_result = OkHeader(Header(leaves_reply[1]))
                  ELSE leaves_result = ErrLeaves("ChainLookup")

\* best_chain returned the header of the first of two leaves with different
\* headers
C21_Witness ==
    /\ LeavesAnswered
    /\ called = "best_chain"
    /\ leaves_reply = <<F(ForkTop), M(ChainLen)>>
    /\ leaves_result = OkHeader(Header(F(ForkTop)))

(***************************************************************************)
(* C22: the connected/disconnected predicate is evaluated at every call    *)
(***************************************************************************)
\* a call begins in this step
CallBegins == pc = "idle" /\ pc' # "idle"

\* C22: every call of leaves, best_chain and finality_target on
\* SelectRelayChainWithFallback is answered by the fallback, with no oracle
\* request sent, if the overseer is disconnected when the call is made, and
\* by the relay-chain selector, which sends its first request, if it is
\* connected then; whatever answered the call before.
C22_PredicatePerCall ==
    /\ [](fallback_called => (sent = <<>> /\ pc = "returned"))
    /\ [][CallBegins =>
            IF is_disconnected(overseer)
            THEN /\ fallback_called'
                 /\ sent' = <<>>
                 /\ pc' = "returned"
            ELSE /\ ~fallback_called'
                 /\ Len(sent') = 1
                 /\ pc' = IF called' = "finality_target"
                          THEN "BestLeafContaining" ELSE "Leaves"]_vars

\* the call before was answered by the fallback; the overseer was connected
\* since, and this finality_target call is answered by the selector, which
\* has asked all three oracles
C22_Witness ==
    /\ previous = "fallback"
    /\ called = "finality_target"
    /\ ~fallback_called
    /\ pc = "returned"
    /\ Len(sent) = 3

(***************************************************************************)
(* C23: bounds on the two finality lags                                    *)
(***************************************************************************)
\* the reply of the dispute coordinator arrived and both lags are recorded
DisputeStageDone == pc = "returned" /\ Len(sent) = 3 /\ ~dropped

\* C23 as stated: approval_lag <= initial_leaf_number and dispute_lag <=
\* approval_lag + (number after the approval stage - number after the
\* dispute stage), for every reply of the two oracles.
C23_AnyDisputeNumber ==
    DisputeStageDone =>
        /\ lag <= initial_leaf_number
        /\ lag_disputes <= lag + (ApprovedNumber - subchain_number)

\* C23: approval_lag <= initial_leaf_number for every reply, and dispute_lag
\* <= approval_lag + (number after the approval stage - number after the
\* dispute stage) when the number after the dispute stage is not above both
\* the initial leaf's number and the number after the approval stage; when
\* it is above both, dispute_lag is 0 and the right-hand side is negative.
C23_LagBounds ==
    DisputeStageDone =>
        /\ lag <= initial_leaf_number
        /\ lag_disputes <= initial_leaf_number
        /\ IF subchain_number <= initial_leaf_number
              \/ subchain_number <= ApprovedNumber
           THEN lag_disputes <= lag + (ApprovedNumber - subchain_number)
           ELSE /\ lag_disputes = 0
                /\ lag + (ApprovedNumber - subchain_number) < 0

\* the dispute coordinator named a number above the number after the approval
\* stage and not above the initial leaf: the dispute lag is below the
\* approval lag, both positive
C23_Witness ==
    /\ DisputeStageDone
    /\ undisputed.some
    /\ ApprovedNumber < subchain_number
    /\ subchain_number < initial_leaf_number
    /\ 0 < lag_disputes /\ lag_disputes < lag

(***************************************************************************)
(* C24: the safety net engages only on an approval lag above               *)
(* MAX_FINALITY_LAG                                                        *)
(***************************************************************************)
\* the subchain head after the dispute stage: the hash the dispute
\* coordinator replied, or the head after the approval stage
UndisputedHead == IF undisputed.some THEN undisputed.hash ELSE ApprovedHead

\* C24: when the dispute stage is done and approval_lag <= MAX_FINALITY_LAG
\* (equal included, whatever dispute_lag is) finality_target returns
\* Ok(Some(h)) with h the hash of the dispute coordinator's Some reply, or
\* the head after the approval stage when it replied None; so a call that
\* returns anything else after the dispute stage had approval_lag >
\* MAX_FINALITY_LAG.
C24_SafetyNetOnlyAboveMax ==
    /\ (DisputeStageDone /\ lag <= MAX_FINALITY_LAG)
          => /\ result = Ok(Some(UndisputedHead))
             /\ subchain_head = UndisputedHead
    /\ (DisputeStageDone /\ result # Ok(Some(subchain_head)))
          => lag > MAX_FINALITY_LAG

\* approval_lag is exactly MAX_FINALITY_LAG, dispute_lag is above it, and the
\* dispute coordinator's block, not the approved one, is returned
C24_Witness ==
    /\ DisputeStageDone
    /\ lag = MAX_FINALITY_LAG
    /\ lag_disputes > MAX_FINALITY_LAG
    /\ undisputed.some
    /\ undisputed.hash # ApprovedHead
    /\ undisputed.hash # target_hash
    /\ result = Ok(Some(undisputed.hash))

(***************************************************************************)
(* C25: Included is unset at the start of every block                      *)
(***************************************************************************)
\* C25: a non-panicking on_finalize leaves Included unset; at the start of
\* every block, the first or a later one, Included is unset; so the first
\* enter of a block is never rejected with TooManyInclusionInherents,
\* whatever happened in the blocks before.
C25_IncludedUnsetAtBlockStart ==
    /\ phase = "finalized" => ~Included
    /\ (phase = "executing" /\ entered = 0) => ~Included
    /\ (phase = "executing" /\ entered = 1)
          => ret # DispatchErr("TooManyInclusionInherents")
    /\ (phase = "executing" /\ entered = 1 /\ last_origin = "none"
          /\ header_hash(last_parent_header) = parent_hash /\ ret.tag = "Err")
          => ops # <<>>

\* the block before had a successful enter and was finalized, and the first
\* enter of this block succeeded too
C25_Witness ==
    /\ previous_block = "finalized"
    /\ phase = "executing"
    /\ entered = 1
    /\ succeeded = 1
    /\ ret.tag = "Ok"
    /\ Included

(***************************************************************************)
(* C26: no arithmetic of finality_target goes out of range                 *)
(***************************************************************************)
\* the approval lag is recorded
ApprovalLagRecorded == Len(sent) = 3

\* C26: finality_target never ends in an arithmetic overflow: whenever the
\* safety net's subtraction initial_leaf_number - MAX_FINALITY_LAG is
\* evaluated (the dispute stage is done and the approval lag is above
\* MAX_FINALITY_LAG), initial_leaf_number is above MAX_FINALITY_LAG; and each
\* lag is the difference of the initial leaf's number and the oracle's
\* number, or 0 when the oracle's number is above the initial leaf's.
C26_NoArithmeticPanic ==
    /\ result.tag # "Overflow"
    /\ (DisputeStageDone /\ LagExceeded(lag))
          => /\ initial_leaf_number > MAX_FINALITY_LAG
             /\ SafeTarget(initial_leaf_number) > 0
    /\ ApprovalLagRecorded
          => /\ lag >= 0
             /\ lag = IF ApprovedNumber > initial_leaf_number THEN 0
                      ELSE initial_leaf_number - ApprovedNumber
    /\ DisputeStageDone
          => /\ lag_disputes >= 0
             /\ lag_disputes = IF subchain_number > initial_leaf_number THEN 0
                               ELSE initial_leaf_number - subchain_number

\* the safety net's subtraction was evaluated and gave the forced block,
\* after the dispute coordinator reported a number above the initial leaf
\* (dispute lag 0)
C26_Witness ==
    /\ DisputeStageDone
    /\ LagExceeded(lag)
    /\ subchain_number > initial_leaf_number
    /\ lag_disputes = 0
    /\ result.tag = "Ok"
    /\ Vote \in Blocks
    /\ Header(Vote).number = initial_leaf_number - MAX_FINALITY_LAG

(***************************************************************************)
(* C27: finality_target returns, and asks each oracle at most once, in     *)
(* order                                                                   *)
(***************************************************************************)
\* the requests of finality_target, in the order of the code
RequestOrder ==
    <<"BestLeafContaining", "ApprovedAncestor", "DetermineUndisputedChain">>

\* the messages sent so far, by name
SentNames == [i \in 1..Len(sent) |-> sent[i].msg]

\* C27: with every awaited request answered or its sender dropped, every
\* finality_target call returns (a vote or an error); the requests it sent
\* are a prefix of BestLeafContaining, ApprovedAncestor,
\* DetermineUndisputedChain, each at most once; while it waits it waits on
\* the last request sent; a request is sent only in the step that takes the
\* reply to the one before; and after the call returned nothing is sent or
\* awaited.
C27_ReturnsAndAsksInOrder ==
    /\ (called = "finality_target") ~> (pc = "returned" /\ result.tag # "Pending")
    /\ [](called = "finality_target" =>
            /\ Len(sent) \in 1..3
            /\ SentNames = SubSeq(RequestOrder, 1, Len(sent))
            /\ pc # "returned" => pc = sent[Len(sent)].msg)
    /\ [][(called = "finality_target" /\ sent' # sent) =>
            /\ pc = sent[Len(sent)].msg
            /\ Len(sent') = Len(sent) + 1
            /\ SubSeq(sent', 1, Len(sent)) = sent
            /\ pc' = sent'[Len(sent')].msg]_vars
    /\ [][pc = "returned" => (pc' = "returned" /\ sent' = sent)]_vars

\* a finality_target call that asked the three oracles in order and returned
\* a vote
C27_Witness ==
    /\ called = "finality_target"
    /\ pc = "returned"
    /\ SentNames = RequestOrder
    /\ ~dropped
    /\ result.tag = "Ok"
====
